---- MODULE Spec2Model ----
(***************************************************************************)
(* Model of the review scraper: main() in src/main.py driving              *)
(* ReviewExtractor.fetch_reviews, _http_get and _generate_mock in          *)
(* src/parsers/review_extractor.py.                                        *)
(*                                                                         *)
(* Times are in tenths of a second.  The network and the parser library    *)
(* are the environment: every request nondeterministically answers 200     *)
(* with some body, answers a non-200 status, or raises; parsing a body     *)
(* may raise (parser library fault).                                       *)
(***************************************************************************)
EXTENDS Integers, Sequences, FiniteSets, TLC

\* ---- bounds of the model ------------------------------------------------
MaxRetries == 2
MaxPages == 2
MaxReviews == 2
MaxSalt == 1
MaxClock == 1
MaxRuns == 2
MaxCodeLen == 3

\* ---- program constants (tenths of a second) ------------------------------
BackoffUnit == 5
PaceMin == 8
PaceMax == 18

None == "None"

VARIABLES
    max_retries,    \* ReviewExtractor.max_retries (settings network.maxRetries)
    jobs,           \* main: the jobs of the input file
    inputReadable,  \* whether load_json_file(args.input) succeeds
    pc,             \* position of the single thread
    jobIdx,         \* main: index of the job of `for job in jobs`
    asinIdx,        \* main: index of the asin of `for asin in asins`
    all_records,    \* main: accumulated records
    exported,       \* what the exporter was handed (None before export)
    exitStatus,     \* return value of main (None while running)
    records,        \* fetch_reviews / _generate_mock: local list, the value returned
    product_info,   \* fetch_reviews local
    summary_info,   \* fetch_reviews local
    page,           \* fetch_reviews: loop variable
    html,           \* fetch_reviews: result of _http_get
    attempt,        \* _http_get: loop variable
    last_exc,       \* _http_get: whether last_exc holds an exception
    trace,          \* history: events of the current fetch_reviews call since
                    \* the previous page was assembled
    pageLog,        \* history: the pages of the current call that returned
                    \* markup, with the number of review entries of each
    firstMeta,      \* history: metadata of the first such page, <<>> before it
    attempted,      \* history: one entry per product main has handled
    snapshot,       \* history: all_records when the current product's call began
    hashSalt,       \* the interpreter's per-process string-hash salt
    clock,          \* the day datetime.utcnow() reports
    mockArgs,       \* arguments of the latest _generate_mock call
    firstCall,      \* history: arguments and result of the first _generate_mock call
    runs,           \* history: number of processes started so far
    domain_cfg,     \* the DomainConfig main builds: domain_map and default_code
    domainCall      \* the latest get_domain call: its code and outcome, <<>> before

vars == <<max_retries, jobs, inputReadable, pc, jobIdx, asinIdx, all_records,
          exported, exitStatus, records, product_info, summary_info, page, html,
          attempt, last_exc, trace, pageLog, firstMeta, attempted, snapshot,
          hashSalt, clock, mockArgs, firstCall, runs, domain_cfg, domainCall>>

mainVars == <<jobIdx, asinIdx, all_records, exported, exitStatus, attempted, snapshot>>
domainVars == <<domain_cfg, domainCall>>
cfgVars == <<max_retries, jobs, inputReadable, hashSalt, clock, runs, domainVars>>
mockVars == <<mockArgs, firstCall>>
httpVars == <<attempt, last_exc>>
fetchVars == <<records, product_info, summary_info, page, html, pageLog, firstMeta>>

\* ---- helpers --------------------------------------------------------------
Ev(k, p, a, b) == [kind |-> k, page |-> p, a |-> a, b |-> b]

RECURSIVE SeqSum(_)
SeqSum(s) == IF s = <<>> THEN 0 ELSE Head(s) + SeqSum(Tail(s))

DefaultFilters ==
    [filterByStar |-> None, filterByKeyword |-> None,
     verifiedOnly |-> FALSE, withMediaOnly |-> FALSE]


\* ---- the environment's inputs ---------------------------------------------
\* Page-level metadata a markup document may carry.  An optional integer or
\* mapping is <<>> when absent and <<v>> when present.
MetaA ==
    [title |-> "Title A", productRating |-> "4.5 out of 5",
     countRatings |-> <<120>>, summary |-> <<[fiveStar |-> 70]>>]
MetaB ==
    [title |-> None, productRating |-> "3.9 out of 5",
     countRatings |-> <<>>, summary |-> <<>>]
Metas == {MetaA, MetaB}

\* What _http_get hands to fetch_reviews: None, an empty body, or a markup
\* document with page metadata m and n review entries.
NoHtml == [kind |-> "none"]
EmptyBody == [kind |-> "empty"]
Markup(m, n) == [kind |-> "markup", meta |-> m, n |-> n]
Bodies == {EmptyBody} \cup {Markup(m, n) : m \in Metas, n \in 0..MaxReviews}

\* `if html is None` in place of `if not html`
FalsyBug(h) == h.kind = "none"

\* markup without review entries taken for no markup
FalsyZeroBug(h) == IF h.kind = "markup" THEN h.n = 0 ELSE TRUE

\* `not html`
Falsy(h) == h.kind # "markup"

\* A document without any of the elements the parsers look for.
MetaNone == [title |-> None, productRating |-> None, countRatings |-> <<>>, summary |-> <<>>]

\* `BeautifulSoup(html, "html.parser")`: the parsed document
Soup(h) == IF h.kind = "markup" THEN h ELSE Markup(MetaNone, 0)

LiveJob(as, m) == [asins |-> as, maxPages |-> m, mock |-> FALSE, domainCode |-> "com"]
MockJob(as, m) == [asins |-> as, maxPages |-> m, mock |-> TRUE, domainCode |-> "de"]

JobLists ==
    {<<LiveJob(<<"B01", "B02">>, 1)>>,
     <<LiveJob(<<>>, 1), MockJob(<<"B02">>, 1), LiveJob(<<"B01">>, MaxPages),
       MockJob(<<"B01">>, 2)>>,
     <<LiveJob(<<"B01">>, 0)>>}

HasMockJob(js) == \E i \in 1..Len(js) : js[i].mock

\* ---- domain resolver (DomainConfig.get_domain) ------------------------------
\* A string is the sequence of its characters.
UpperChars ==
    <<"A", "B", "C", "D", "E", "F", "G", "H", "I", "J", "K", "L", "M",
      "N", "O", "P", "Q", "R", "S", "T", "U", "V", "W", "X", "Y", "Z">>
LowerChars ==
    <<"a", "b", "c", "d", "e", "f", "g", "h", "i", "j", "k", "l", "m",
      "n", "o", "p", "q", "r", "s", "t", "u", "v", "w", "x", "y", "z">>

LowerChar(ch) ==
    IF \E i \in 1..Len(UpperChars) : UpperChars[i] = ch
    THEN LowerChars[CHOOSE i \in 1..Len(UpperChars) : UpperChars[i] = ch]
    ELSE ch

\* str.lower()
LowerStr(str) == [i \in 1..Len(str) |-> LowerChar(str[i])]

IsSpace(ch) == ch \in {" ", "\t", "\n"}

\* str.strip(): without its leading and trailing whitespace
Strip(str) ==
    LET keep == {i \in 1..Len(str) : ~IsSpace(str[i])}
    IN IF keep = {} THEN <<>>
       ELSE SubSeq(str, CHOOSE i \in keep : \A j \in keep : i <= j,
                        CHOOSE i \in keep : \A j \in keep : j <= i)

\* `"." in code`
HasDot(str) == \E i \in 1..Len(str) : str[i] = "."

\* the literal set of known suffixes of get_domain
KnownSuffixes ==
    {<<"c", "o", "m">>, <<"d", "e">>, <<"f", "r">>, <<"i", "t">>, <<"e", "s">>,
     <<"n", "l">>, <<"c", "o", ".", "u", "k">>, <<"c", "o", "m", ".", "a", "u">>,
     <<"c", "a">>, <<"c", "o", ".", "j", "p">>, <<"c", "o", "m", ".", "m", "x">>,
     <<"c", "o", "m", ".", "t", "r">>, <<"a", "e">>, <<"s", "g">>, <<"s", "a">>}

\* the pass-through test without the "." check
PassThroughBug(code) == code \in KnownSuffixes

\* `"." in code or code in {...}`
PassThrough(code) == HasDot(code) \/ code \in KnownSuffixes

\* `if not code: code = self.default_code`; a code is <<>> for None and
\* <<str>> for a string
DefaultIfEmpty(c, default_code) ==
    IF c = <<>> \/ c[1] = <<>> THEN <<default_code>> ELSE c

\* `self.domain_map.get(code, self.default_code)`
MapGet(domain_map, code, default_code) ==
    IF code \in DOMAIN domain_map THEN domain_map[code] ELSE default_code

\* get_domain: the value returned, or raised = TRUE when `.lower()` is
\* applied to None
get_domain(cfg, c) ==
    LET c1 == DefaultIfEmpty(c, cfg.default_code)
    IN IF c1 = <<>>
       THEN [raised |-> TRUE, value |-> <<>>]
       ELSE LET code == Strip(LowerStr(c1[1]))
            IN [raised |-> FALSE,
                value |-> IF PassThrough(code) THEN code
                          ELSE MapGet(cfg.domain_map, code, cfg.default_code)]

\* DomainConfig(domain_map={}, default_code="com")
DefaultDomainConfig == [domain_map |-> <<>>, default_code |-> <<"c", "o", "m">>]

\* ---- parsers and record assembly (fetch_reviews) --------------------------
parse_product_info(soup) == [title |-> soup.meta.title]

parse_summary_info(soup) ==
    [productRating |-> soup.meta.productRating,
     countRatings |-> soup.meta.countRatings,
     summary |-> soup.meta.summary]

\* The review entries of a document, in document order.
parse_reviews_from_soup(soup) == [i \in 1..soup.n |-> [id |-> i, date |-> <<>>]]

ReviewRecord(asin, dom, pg, sort, flt, cnt, pinfo, sinfo, r) ==
    [statusCode |-> 200,
     asin |-> asin,
     productTitle |-> IF pinfo # <<>> THEN pinfo[1].title ELSE None,
     currentPage |-> pg,
     sortStrategy |-> sort,
     countReviews |-> cnt,
     domainCode |-> dom,
     filters |-> flt,
     countRatings |-> IF sinfo # <<>> THEN sinfo[1].countRatings ELSE <<>>,
     productRating |-> IF sinfo # <<>> THEN sinfo[1].productRating ELSE None,
     reviewSummary |-> IF sinfo # <<>> THEN sinfo[1].summary ELSE <<>>,
     reviewId |-> r.id,
     date |-> r.date,
     rating |-> <<>>,
     userName |-> None,
     numberOfHelpful |-> <<>>,
     variationId |-> None,
     variationList |-> <<>>,
     verified |-> FALSE]

\* the product metadata parsed anew on every page
CaptureProductInfoBug(pinfo, soup) == <<parse_product_info(soup)>>

\* `if product_info is None: product_info = self._parse_product_info(soup)`
CaptureProductInfo(pinfo, soup) ==
    IF pinfo = <<>> THEN <<parse_product_info(soup)>> ELSE pinfo

\* `if summary_info is None: summary_info = self._parse_summary_info(soup)`
CaptureSummaryInfo(sinfo, soup) ==
    IF sinfo = <<>> THEN <<parse_summary_info(soup)>> ELSE sinfo

\* countReviews of the records of a page with page_reviews entries
CountReviewsOf(page_reviews) == Len(page_reviews)

\* countReviews taken as the running count of the entry within its page
PageRecordsBug(asin, dom, pg, sort, flt, pinfo, sinfo, page_reviews) ==
    [i \in 1..Len(page_reviews) |->
        ReviewRecord(asin, dom, pg, sort, flt, i, pinfo, sinfo, page_reviews[i])]

\* the records the `for r in page_reviews` loop appends for one page
PageRecords(asin, dom, pg, sort, flt, pinfo, sinfo, page_reviews) ==
    [i \in 1..Len(page_reviews) |->
        ReviewRecord(asin, dom, pg, sort, flt, CountReviewsOf(page_reviews),
                     pinfo, sinfo, page_reviews[i])]


\* ---- mock data (_generate_mock) --------------------------------------------
\* Strings enter the hash through their code; the interpreter salts string
\* hashes with a value drawn once per process.
StrCode(str) ==
    CASE str = "B01" -> 11 [] str = "B02" -> 23 [] str = "com" -> 5
      [] str = "de" -> 7 [] OTHER -> 1

\* hash((asin, domain_code)) in a process whose hash salt is `salt`
HashTuple(asin, dom, salt) ==
    (StrCode(asin) * 31 + StrCode(dom)) * 7919 + salt * 10007

\* The generator's state space: states 0 .. GenModulus - 2.
GenModulus == 32749

\* `hash((asin, domain_code)) & 0xFFFFFFFF` handed to random.seed: the state
\* the generator starts from
MockSeed(asin, dom, salt) == HashTuple(asin, dom, salt) % (GenModulus - 1)

\* 75^k modulo GenModulus
RECURSIVE Pow75(_)
Pow75(k) ==
    IF k = 0 THEN 1
    ELSE IF k % 2 = 0
         THEN LET h == Pow75(k \div 2) IN (h * h) % GenModulus
         ELSE (75 * Pow75(k - 1)) % GenModulus

\* The generator state after k draws from state st; one draw maps st to
\* (75 * st + 74) % GenModulus.
LcgN(st, k) ==
    ((((st + 1) * Pow75(k)) % GenModulus) + GenModulus - 1) % GenModulus

\* random.randint(lo, hi) read off the generator state reached by the draw
RandInt(st, lo, hi) == lo + (st % (hi - lo + 1))

\* random.choice(seq)
Choice(st, seq) == seq[1 + (st % Len(seq))]

\* countReviews of a mock record of a page of page_size records
MockCountReviews(page_size) == page_size

\* One record of the inner loop; `off` draws were made before it.
MockRecord(ctx, pg, page_size, off) ==
    LET rid == LcgN(ctx.seed, off + 1)
        stars == Choice(LcgN(ctx.seed, off + 2), <<5, 4, 3, 2, 1>>)
    IN [statusCode |-> 200,
        asin |-> ctx.asin,
        productTitle |-> "Mock Product for " \o ctx.asin,
        currentPage |-> pg,
        sortStrategy |-> ctx.sort_by,
        countReviews |-> MockCountReviews(page_size),
        domainCode |-> ctx.domain_code,
        filters |-> ctx.filters,
        countRatings |-> <<ctx.total>>,
        productRating |-> ctx.product_rating,
        reviewSummary |-> <<ctx.summary>>,
        reviewId |-> rid,
        date |-> <<ctx.day>>,
        rating |-> <<stars>>,
        userName |-> Choice(LcgN(ctx.seed, off + 3),
                            <<"Alex", "Jordan", "Taylor", "Sam", "Casey", "Riley">>),
        numberOfHelpful |-> <<RandInt(LcgN(ctx.seed, off + 4), 0, 25)>>,
        variationId |-> ctx.asin,
        variationList |-> <<Choice(LcgN(ctx.seed, off + 5),
                                   <<"Color: Black", "Size: Large", "Style: Single">>)>>,
        verified |-> Choice(LcgN(ctx.seed, off + 6), <<TRUE, FALSE, TRUE>>)]

\* `for page in range(1, max_pages + 1)`; `off` draws were made before the page.
RECURSIVE MockPages(_, _, _, _)
MockPages(ctx, pg, max_pages, off) ==
    IF pg > max_pages THEN <<>>
    ELSE LET page_size == RandInt(LcgN(ctx.seed, off + 1), 5, 12)
         IN [i \in 1..page_size |->
                MockRecord(ctx, pg, page_size, off + 1 + 6 * (i - 1))]
            \o MockPages(ctx, pg + 1, max_pages, off + 1 + 6 * page_size)

\* _generate_mock in a process with hash salt `salt`, on day `day`
generate_mock(asin, domain_code, max_pages, filters, sort_by, salt, day) ==
    LET s0 == MockSeed(asin, domain_code, salt)
        ctx == [asin |-> asin, domain_code |-> domain_code,
                filters |-> filters, sort_by |-> sort_by, day |-> day, seed |-> s0,
                total |-> RandInt(LcgN(s0, 1), 5, 15) * max_pages,
                product_rating |-> ToString(RandInt(LcgN(s0, 2), 38, 49)),
                summary |-> [fiveStar |-> RandInt(LcgN(s0, 3), 50, 90),
                             fourStar |-> RandInt(LcgN(s0, 4), 5, 30),
                             threeStar |-> RandInt(LcgN(s0, 5), 1, 15),
                             twoStar |-> RandInt(LcgN(s0, 6), 0, 5),
                             oneStar |-> RandInt(LcgN(s0, 7), 0, 5)]]
    IN MockPages(ctx, 1, max_pages, 7)

\* ---- state machine: main ---------------------------------------------------
Job == jobs[jobIdx]
Asin == Job.asins[asinIdx]

\* Every attempt for page p in trace tr answered a non-200 status (and there
\* was at least one attempt).
AllNon200(tr, p) ==
    /\ \E i \in 1..Len(tr) : tr[i].kind = "req" /\ tr[i].page = p
    /\ \A i \in 1..Len(tr) :
          (tr[i].kind = "req" /\ tr[i].page = p) => tr[i].b = "non200"

\* `all_records = records` in place of `all_records.extend(records)`
CollectRecordsBug(all, recs) == recs

\* `all_records.extend(records)`
CollectRecords(all, recs) == all \o recs

\* the records parsed before the exception are kept
OnFetchExceptionBug(all, recs) == all \o recs

\* `except Exception as e: logger.exception(...)`: nothing is added
OnFetchException(all, recs) == all

\* fetch_reviews hands control back to main's `for asin in asins` body, either
\* returning recs (st = "ok") or raising (st = "failed").
BackInMain(recs, st, tr) ==
    /\ all_records' = IF st = "ok" THEN CollectRecords(all_records, recs)
                                   ELSE OnFetchException(all_records, recs)
    /\ attempted' = Append(attempted,
                           [job |-> jobIdx, asin |-> Asin, status |-> st,
                            n |-> Len(all_records') - Len(all_records),
                            returned |-> IF st = "ok" THEN Len(recs) ELSE 0,
                            p1non200 |-> AllNon200(tr, 1)])
    /\ asinIdx' = asinIdx + 1
    /\ pc' = "jobs"
    /\ UNCHANGED <<jobIdx, exported, exitStatus, snapshot>>

\* main: `input_cfg = load_json_file(args.input)` fails: return 1
LoadInputFail ==
    /\ pc = "load" /\ ~inputReadable
    /\ exitStatus' = <<1>>
    /\ pc' = "done"
    /\ UNCHANGED <<jobIdx, asinIdx, all_records, exported, attempted, snapshot,
                   cfgVars, mockVars, httpVars, fetchVars, trace>>

\* main: settings and input loaded, extractor built, `all_records = []`
LoadInputOk ==
    /\ pc = "load" /\ inputReadable
    /\ pc' = "jobs"
    /\ UNCHANGED <<mainVars, cfgVars, mockVars, httpVars, fetchVars, trace>>

\* main: `if not asins: ... continue`
SkipJob ==
    /\ pc = "jobs" /\ jobIdx <= Len(jobs)
    /\ Job.asins = <<>>
    /\ jobIdx' = jobIdx + 1
    /\ asinIdx' = 1
    /\ UNCHANGED <<pc, all_records, exported, exitStatus, attempted, snapshot,
                   cfgVars, mockVars, httpVars, fetchVars, trace>>

\* main: `for asin in asins` is exhausted, on to the next job
EndJob ==
    /\ pc = "jobs" /\ jobIdx <= Len(jobs)
    /\ Job.asins # <<>> /\ asinIdx > Len(Job.asins)
    /\ jobIdx' = jobIdx + 1
    /\ asinIdx' = 1
    /\ UNCHANGED <<pc, all_records, exported, exitStatus, attempted, snapshot,
                   cfgVars, mockVars, httpVars, fetchVars, trace>>

\* main calls fetch_reviews(mock=False): the locals are initialised
CallFetch ==
    /\ pc = "jobs" /\ jobIdx <= Len(jobs)
    /\ asinIdx <= Len(Job.asins) /\ ~Job.mock
    /\ records' = <<>>
    /\ product_info' = <<>>
    /\ summary_info' = <<>>
    /\ page' = 1
    /\ html' = NoHtml
    /\ trace' = <<>>
    /\ pageLog' = <<>>
    /\ firstMeta' = <<>>
    /\ snapshot' = all_records
    /\ pc' = "page_loop"
    /\ UNCHANGED <<jobIdx, asinIdx, all_records, exported, exitStatus, attempted,
                   cfgVars, mockVars, httpVars>>

\* main calls fetch_reviews(mock=True): `return self._generate_mock(...)`
MockFetch ==
    /\ pc = "jobs" /\ jobIdx <= Len(jobs)
    /\ asinIdx <= Len(Job.asins) /\ Job.mock
    /\ records' = generate_mock(Asin, Job.domainCode, Job.maxPages,
                                DefaultFilters, "recent", hashSalt, clock)
    /\ trace' = <<>>
    /\ mockArgs' = <<Asin, Job.domainCode, Job.maxPages, DefaultFilters, "recent">>
    /\ all_records' = CollectRecords(all_records, records')
    /\ attempted' = Append(attempted,
                           [job |-> jobIdx, asin |-> Asin, status |-> "ok",
                            n |-> Len(all_records') - Len(all_records),
                            returned |-> Len(records'), p1non200 |-> FALSE])
    /\ snapshot' = all_records
    /\ asinIdx' = asinIdx + 1
    /\ pageLog' = <<>>
    /\ firstMeta' = <<>>
    /\ UNCHANGED <<pc, jobIdx, exported, exitStatus, cfgVars, firstCall, httpVars,
                   product_info, summary_info, page, html>>

\* main: all jobs done; the exporter is handed all_records; return 0
Export ==
    /\ pc = "jobs" /\ jobIdx > Len(jobs)
    /\ exported' = <<all_records>>
    /\ exitStatus' = <<0>>
    /\ pc' = "done"
    /\ UNCHANGED <<jobIdx, asinIdx, all_records, attempted, snapshot,
                   cfgVars, mockVars, httpVars, fetchVars, trace>>


\* ---- state machine: fetch_reviews ------------------------------------------
\* The events the history keeps when the next page's fetch begins: the
\* assembly of the previous page and the pacing delay after it.
Window(tr) == IF Len(tr) <= 2 THEN tr ELSE SubSeq(tr, Len(tr) - 1, Len(tr))

\* `for page in range(1, max_pages + 1)`: a further page; the URL is built and
\* _http_get is entered (`last_exc = None`, first attempt)
PageLoop ==
    /\ pc = "page_loop" /\ page <= Job.maxPages
    /\ attempt' = 1
    /\ last_exc' = FALSE
    /\ pc' = "http"
    /\ trace' = Window(trace)
    /\ UNCHANGED <<mainVars, cfgVars, mockVars, fetchVars>>

\* the page loop is exhausted: `return records`
FetchReturn ==
    /\ pc = "page_loop" /\ page > Job.maxPages
    /\ BackInMain(records, "ok", trace)
    /\ UNCHANGED <<cfgVars, mockVars, httpVars, fetchVars, trace>>

\* `if not html: logger.warning(...); break`, then `return records`
EmptyHtml ==
    /\ pc = "got_html" /\ Falsy(html)
    /\ trace' = Append(trace, Ev("nomarkup", page, 0, 0))
    /\ BackInMain(records, "ok", trace')
    /\ UNCHANGED <<cfgVars, mockVars, httpVars, fetchVars>>

\* a pacing delay drawn from 0 upwards
PaceChoicesBug == {0, PaceMax}

\* the pacing delay of `time.sleep(random.uniform(0.8, 1.8))`
PaceChoices == {PaceMin, PaceMax}

\* the body of the page loop after a fetch that returned markup: parse, capture
\* the page-level metadata once, assemble the page's records, pace
ParsePage ==
    /\ pc = "got_html" /\ ~Falsy(html)
    /\ \E d \in PaceChoices :
          LET soup == Soup(html)
              page_reviews == parse_reviews_from_soup(soup)
          IN /\ product_info' = CaptureProductInfo(product_info, soup)
             /\ summary_info' = CaptureSummaryInfo(summary_info, soup)
             /\ records' = records \o
                    PageRecords(Asin, Job.domainCode, page, "recent", DefaultFilters,
                                product_info', summary_info', page_reviews)
             /\ trace' = trace \o <<Ev("parsed", page, Len(page_reviews), 0),
                                    Ev("pace", page, d, 0)>>
             /\ pageLog' = Append(pageLog, [page |-> page, n |-> soup.n])
             /\ firstMeta' = IF pageLog = <<>> THEN <<soup.meta>> ELSE firstMeta
    /\ page' = page + 1
    /\ pc' = "page_loop"
    /\ UNCHANGED <<mainVars, cfgVars, mockVars, httpVars, html>>

\* the parser library raises on the document: the exception leaves
\* fetch_reviews and reaches main's except clause
ParseRaise ==
    /\ pc = "got_html" /\ ~Falsy(html)
    /\ trace' = Append(trace, Ev("raise", page, "parse", 0))
    /\ BackInMain(records, "failed", trace')
    /\ UNCHANGED <<cfgVars, mockVars, httpVars, fetchVars>>

\* ---- state machine: _http_get ----------------------------------------------
\* `for attempt in range(1, self.max_retries + 1)`: another attempt is due
MoreAttempts(att, maxr) == att <= maxr

\* a constant wait in place of the linear one
BackoffDelayBug(att) == BackoffUnit

\* `time.sleep(0.5 * attempt)`
BackoffDelay(att) == BackoffUnit * att

\* the exception of the final attempt is raised again
CaughtByExceptBug(att, maxr) == att < maxr

\* `except Exception as e` catches what the request raises, on every attempt
CaughtByExcept(att, maxr) == TRUE

\* `if last_exc: logger.error(...)`
LogsTerminalFailure(exc) == exc

\* the request answers 200: `return resp.text`
HttpOk ==
    /\ pc = "http" /\ MoreAttempts(attempt, max_retries)
    /\ \E b \in Bodies :
          /\ html' = b
          /\ trace' = trace \o <<Ev("req", page, attempt, "200"),
                                 Ev("resp", page, attempt, b)>>
    /\ pc' = "got_html"
    /\ UNCHANGED <<mainVars, cfgVars, mockVars, httpVars, records, product_info,
                   summary_info, page, pageLog, firstMeta>>

\* the request answers another status: warning, backoff, next attempt
HttpNon200 ==
    /\ pc = "http" /\ MoreAttempts(attempt, max_retries)
    /\ trace' = trace \o <<Ev("req", page, attempt, "non200"),
                           Ev("sleep", page, attempt, BackoffDelay(attempt))>>
    /\ attempt' = attempt + 1
    /\ UNCHANGED <<mainVars, cfgVars, mockVars, fetchVars, last_exc, pc>>

\* the request raises: `last_exc = e`, warning, backoff, next attempt
HttpError ==
    /\ pc = "http" /\ MoreAttempts(attempt, max_retries)
    /\ IF CaughtByExcept(attempt, max_retries)
       THEN /\ last_exc' = TRUE
            /\ trace' = trace \o <<Ev("req", page, attempt, "exc"),
                                   Ev("sleep", page, attempt, BackoffDelay(attempt))>>
            /\ attempt' = attempt + 1
            /\ UNCHANGED <<mainVars, pc>>
       ELSE /\ trace' = trace \o <<Ev("req", page, attempt, "exc"),
                                   Ev("raise", page, "http", 0)>>
            /\ BackInMain(records, "failed", trace')
            /\ UNCHANGED httpVars
    /\ UNCHANGED <<cfgVars, mockVars, fetchVars>>

\* the attempts are used up: the terminal failure is logged if an exception
\* was recorded; `return None`
HttpExhausted ==
    /\ pc = "http" /\ ~MoreAttempts(attempt, max_retries)
    /\ trace' = IF LogsTerminalFailure(last_exc)
                THEN trace \o <<Ev("error", page, 0, 0), Ev("absent", page, 0, 0)>>
                ELSE Append(trace, Ev("absent", page, 0, 0))
    /\ html' = NoHtml
    /\ pc' = "got_html"
    /\ UNCHANGED <<mainVars, cfgVars, mockVars, httpVars, records, product_info,
                   summary_info, page, pageLog, firstMeta>>

\* ---- specification of a run of the program ---------------------------------
Init ==
    /\ max_retries \in 0..MaxRetries
    /\ jobs \in JobLists
    /\ inputReadable \in BOOLEAN
    /\ hashSalt \in (IF HasMockJob(jobs) THEN 0..MaxSalt ELSE {0})
    /\ clock = 0
    /\ runs = 1
    /\ pc = "load"
    /\ jobIdx = 1
    /\ asinIdx = 1
    /\ all_records = <<>>
    /\ exported = <<>>
    /\ exitStatus = <<>>
    /\ records = <<>>
    /\ product_info = <<>>
    /\ summary_info = <<>>
    /\ page = 1
    /\ html = NoHtml
    /\ attempt = 1
    /\ last_exc = FALSE
    /\ trace = <<>>
    /\ pageLog = <<>>
    /\ firstMeta = <<>>
    /\ attempted = <<>>
    /\ snapshot = <<>>
    /\ mockArgs = <<>>
    /\ firstCall = <<>>
    /\ domain_cfg = DefaultDomainConfig
    /\ domainCall = <<>>

Next ==
    \/ LoadInputFail
    \/ LoadInputOk
    \/ SkipJob
    \/ EndJob
    \/ CallFetch
    \/ MockFetch
    \/ Export
    \/ PageLoop
    \/ FetchReturn
    \/ EmptyHtml
    \/ ParsePage
    \/ ParseRaise
    \/ HttpOk
    \/ HttpNon200
    \/ HttpError
    \/ HttpExhausted

Spec == Init /\ [][Next]_vars


\* ---- specification of the mock generator across processes ------------------
\* The generator is called directly, with varying arguments, in a sequence of
\* processes; each process draws its own string-hash salt when it starts.
MockAsins == {"B01", "B02"}
MockDomains == {"com", "de"}
MockSorts == {"recent", "helpful"}

InitMock ==
    /\ max_retries = 0
    /\ jobs = <<>>
    /\ inputReadable = TRUE
    /\ hashSalt \in 0..MaxSalt
    /\ clock = 0
    /\ runs = 1
    /\ pc = "mock"
    /\ jobIdx = 1
    /\ asinIdx = 1
    /\ all_records = <<>>
    /\ exported = <<>>
    /\ exitStatus = <<>>
    /\ records = <<>>
    /\ product_info = <<>>
    /\ summary_info = <<>>
    /\ page = 1
    /\ html = NoHtml
    /\ attempt = 1
    /\ last_exc = FALSE
    /\ trace = <<>>
    /\ pageLog = <<>>
    /\ firstMeta = <<>>
    /\ attempted = <<>>
    /\ snapshot = <<>>
    /\ mockArgs = <<>>
    /\ firstCall = <<>>
    /\ domain_cfg = DefaultDomainConfig
    /\ domainCall = <<>>

\* one call of _generate_mock
MockCall ==
    /\ pc = "mock"
    /\ \E asin \in MockAsins, dom \in MockDomains, mp \in 1..MaxPages, srt \in MockSorts :
          /\ records' = generate_mock(asin, dom, mp, DefaultFilters, srt, hashSalt, clock)
          /\ mockArgs' = <<asin, dom, mp, DefaultFilters, srt>>
          /\ firstCall' = IF firstCall = <<>>
                          THEN <<[args |-> mockArgs', out |-> records']>>
                          ELSE firstCall
    /\ UNCHANGED <<mainVars, cfgVars, httpVars, product_info, summary_info, page, html,
                   pageLog, firstMeta, trace, pc>>

\* the program is started again: a new process, a new hash salt
NewProcess ==
    /\ pc = "mock" /\ runs < MaxRuns
    /\ runs' = runs + 1
    /\ hashSalt' \in 0..MaxSalt
    /\ mockArgs' = <<>>
    /\ records' = <<>>
    /\ UNCHANGED <<mainVars, max_retries, jobs, inputReadable, clock, domainVars, httpVars,
                   product_info, summary_info, page, html, pageLog, firstMeta, trace,
                   firstCall, pc>>

\* a day passes
ClockTick ==
    /\ pc = "mock" /\ clock < MaxClock
    /\ clock' = clock + 1
    /\ UNCHANGED <<mainVars, max_retries, jobs, inputReadable, hashSalt, runs, domainVars,
                   httpVars,
                   fetchVars, trace, mockVars, pc>>

NextMock ==
    \/ MockCall
    \/ NewProcess
    \/ ClockTick

SpecMock == InitMock /\ [][NextMock]_vars

\* ---- specification of the domain resolver -----------------------------------
\* the characters codes are made of
CodeChars == {"d", "e", "D", "x", ".", " "}

\* every string of at most n characters
StringsUpTo(n) == UNION {[1..k -> CodeChars] : k \in 0..n}

\* what a caller may pass as code: None or a string
Codes == {<<>>} \cup {<<str>> : str \in StringsUpTo(MaxCodeLen)}

\* the settings a DomainConfig may be built from: an alias table (the
\* "domains" mapping) and a default code (defaults.domainCode)
AliasTables ==
    {<<>>,
     (<<"x">> :> <<"c", "o", ".", "u", "k">>) @@ (<<"d", "e">> :> <<"f", "r">>)
        @@ (<<>> :> <<"i", "t">>)}
DefaultCodes == {<<"c", "o", "m">>, <<"D", "E">>}
DomainConfigs ==
    {[domain_map |-> t, default_code |-> d] : t \in AliasTables, d \in DefaultCodes}

InitDomain ==
    /\ max_retries = 0
    /\ jobs = <<>>
    /\ inputReadable = TRUE
    /\ hashSalt = 0
    /\ clock = 0
    /\ runs = 1
    /\ pc = "domain"
    /\ jobIdx = 1
    /\ asinIdx = 1
    /\ all_records = <<>>
    /\ exported = <<>>
    /\ exitStatus = <<>>
    /\ records = <<>>
    /\ product_info = <<>>
    /\ summary_info = <<>>
    /\ page = 1
    /\ html = NoHtml
    /\ attempt = 1
    /\ last_exc = FALSE
    /\ trace = <<>>
    /\ pageLog = <<>>
    /\ firstMeta = <<>>
    /\ attempted = <<>>
    /\ snapshot = <<>>
    /\ mockArgs = <<>>
    /\ firstCall = <<>>
    /\ domain_cfg \in DomainConfigs
    /\ domainCall = <<>>

\* one call of domain_cfg.get_domain(code)
ResolveCall ==
    /\ pc = "domain"
    /\ \E c \in Codes :
          domainCall' = <<[code |-> c, result |-> get_domain(domain_cfg, c)]>>
    /\ UNCHANGED <<mainVars, max_retries, jobs, inputReadable, hashSalt, clock, runs,
                   domain_cfg, httpVars, fetchVars, trace, mockVars, pc>>

NextDomain == ResolveCall

SpecDomain == InitDomain /\ [][NextDomain]_vars

\* ---- claims ------------------------------------------------------------------
\* a record sequence with the date field of every record blanked
StripDate(recs) == [i \in 1..Len(recs) |-> [recs[i] EXCEPT !.date = <<>>]]

\* C7: any two calls of the mock generator with identical (asin, domain_code,
\* max_pages, filters, sort_by), in the same run or in different runs of the
\* program, produce identical record sequences apart from the date field.
\* Stated for the first call and any later call with the same arguments.
C7_MockDeterministicAcrossRuns ==
    (firstCall # <<>> /\ mockArgs = firstCall[1].args)
        => StripDate(records) = StripDate(firstCall[1].out)


\* ---- claims about one run (Spec) ---------------------------------------------
Last(sq) == sq[Len(sq)]

\* positions of the requests in the history
ReqIdx == {i \in 1..Len(trace) : trace[i].kind = "req"}

\* main is between two products, or has finished
InMain == pc \in {"jobs", "done"}

\* C1: _http_get makes at most max_retries requests for the URL, returns the
\* body of the first attempt that answers 200 and requests nothing after it,
\* returns None when no attempt answers 200, and never lets an exception of a
\* request reach its caller.
C1_HttpGetContract ==
    /\ Cardinality(ReqIdx) <= max_retries
    /\ \A i \in ReqIdx :
          /\ \A j \in ReqIdx : trace[j].page = trace[i].page
          /\ pc \in {"http", "got_html"} => trace[i].page = page
          /\ trace[i].a = Cardinality({j \in ReqIdx : j <= i})
          /\ trace[i].b = "200" => \A j \in ReqIdx : j <= i
    /\ \A i \in 1..Len(trace) :
          trace[i].kind = "raise" => trace[i].a = "parse"
    /\ pc = "got_html" =>
          IF \E i \in ReqIdx : trace[i].b = "200"
          THEN \E i \in ReqIdx :
                  /\ trace[i].b = "200"
                  /\ trace[i + 1].kind = "resp"
                  /\ html = trace[i + 1].b
          ELSE html = NoHtml

\* C1 witness: the final attempt raised and _http_get returned None
C1_Witness ==
    /\ pc = "got_html" /\ html = NoHtml
    /\ max_retries >= 2
    /\ \E i \in ReqIdx : trace[i].a = max_retries /\ trace[i].b = "exc"

\* the fetch recorded at position i of the history yielded no markup
NoMarkupAt(i) ==
    \/ trace[i].kind = "absent"
    \/ trace[i].kind = "resp" /\ trace[i].b.kind # "markup"

\* the page numbers of the records the logged pages yield, in page order
RECURSIVE PagesOfLog(_)
PagesOfLog(lg) ==
    IF lg = <<>> THEN <<>>
    ELSE PagesOfLog(SubSeq(lg, 1, Len(lg) - 1))
         \o [k \in 1..Last(lg).n |-> Last(lg).page]

\* C2: live pagination stops at the first page p whose fetch yields no markup:
\* nothing is fetched or parsed after it, fetch_reviews returns normally, and
\* the returned sequence holds exactly the records of pages 1..p-1 in page order.
C2_StopsAtFirstEmptyPage ==
    \A i \in 1..Len(trace) :
        NoMarkupAt(i) =>
            /\ \A j \in (i + 1)..Len(trace) : trace[j].kind = "nomarkup"
            /\ Len(pageLog) = trace[i].page - 1
            /\ \A k \in 1..Len(pageLog) : pageLog[k].page = k
            /\ [k \in 1..Len(records) |-> records[k].currentPage] = PagesOfLog(pageLog)
            /\ \A k \in 1..Len(records) :
                  records[k].reviewId =
                      Cardinality({j \in 1..k : records[j].currentPage = records[k].currentPage})
            /\ \/ pc = "got_html" /\ i = Len(trace)
               \/ /\ InMain
                  /\ Last(attempted).status = "ok"
                  /\ Last(attempted).n = Len(records)
                  /\ all_records = snapshot \o records

\* C2 witness: page 2 yielded no markup after page 1 gave records; returned
C2_Witness ==
    /\ InMain /\ trace # <<>>
    /\ \E i \in 1..Len(trace) : NoMarkupAt(i) /\ trace[i].page = 2
    /\ records # <<>>

\* the products of the input in processing order
RECURSIVE ProductsOf(_, _)
ProductsOf(js, j) ==
    IF j > Len(js) THEN <<>>
    ELSE [k \in 1..Len(js[j].asins) |-> <<j, js[j].asins[k]>>] \o ProductsOf(js, j + 1)

\* C3: an exception during a product's fetch_reviews call makes the product
\* contribute zero records, leaves the records accumulated before it unchanged,
\* and the run goes on: every product of every job is handled and the run ends
\* with the export.
C3_ProductFailureIsolated ==
    /\ \A k \in 1..Len(attempted) : attempted[k].status = "failed" => attempted[k].n = 0
    /\ (InMain /\ attempted # <<>> /\ Last(attempted).status = "failed")
          => all_records = snapshot
    /\ [k \in 1..Len(attempted) |-> <<attempted[k].job, attempted[k].asin>>]
          = SubSeq(ProductsOf(jobs, 1), 1, Len(attempted))
    /\ (pc = "done" /\ inputReadable) =>
          /\ Len(attempted) = Len(ProductsOf(jobs, 1))
          /\ exitStatus = <<0>>
          /\ exported = <<all_records>>

\* C3 witness: a product failed on a later page, after records of its first
\* page were assembled and while an earlier product's records were accumulated
C3_Witness ==
    /\ pc = "jobs" /\ attempted # <<>>
    /\ Last(attempted).status = "failed"
    /\ records # <<>> /\ page = 2
    /\ all_records # <<>>

\* C4: when every attempt for page 1 of a product answers non-200 the product
\* yields zero records without failing, and the run ends with exit status 0
\* and the export of the records of the other products.
C4_AllNon200FirstPage ==
    /\ \A k \in 1..Len(attempted) :
          attempted[k].p1non200 => attempted[k].status = "ok" /\ attempted[k].n = 0
    /\ (pc = "done" /\ inputReadable) =>
          /\ exitStatus = <<0>>
          /\ exported = <<all_records>>
          /\ Len(all_records) = SeqSum([k \in 1..Len(attempted) |-> attempted[k].returned])

\* C4 witness: such a product and a product with records, run ended with 0
C4_Witness ==
    /\ pc = "done" /\ exitStatus = <<0>>
    /\ \E k \in 1..Len(attempted) : attempted[k].p1non200
    /\ \E k \in 1..Len(attempted) : attempted[k].returned > 0
    /\ exported # <<>> /\ exported[1] # <<>>

\* records of the current sequence that carry page q
OnPage(q) == {j \in 1..Len(records) : records[j].currentPage = q}

\* C5: in the sequence of one fetch_reviews call, live or mock, a page that
\* yielded N entries has exactly N records, each with countReviews = N; the
\* countReviews of the distinct pages sum to the number of records.
C5_CountReviewsMatchesPage ==
    /\ \A i \in 1..Len(records) :
          records[i].countReviews = Cardinality(OnPage(records[i].currentPage))
    /\ \A k \in 1..Len(pageLog) : Cardinality(OnPage(pageLog[k].page)) = pageLog[k].n
    /\ LET pages == {records[i].currentPage : i \in 1..Len(records)}
           cnt(q) == records[CHOOSE j \in OnPage(q) : TRUE].countReviews
           RECURSIVE Total(_)
           Total(ps) == IF ps = {} THEN 0
                        ELSE LET q == CHOOSE x \in ps : TRUE
                             IN cnt(q) + Total(ps \ {q})
       IN Total(pages) = Len(records)

\* C5 witness: a live call returned two pages with different entry counts
C5_Witness ==
    /\ InMain /\ Len(pageLog) = 2
    /\ pageLog[1].n = 2 /\ pageLog[2].n = 1
    /\ Len(records) = 3

\* C6: within one live call the four page-level fields of every record are
\* those of the first page that returned markup, whatever later pages carry.
C6_PageMetadataFrozen ==
    firstMeta # <<>> =>
        \A i \in 1..Len(records) :
            /\ records[i].productTitle = firstMeta[1].title
            /\ records[i].countRatings = firstMeta[1].countRatings
            /\ records[i].productRating = firstMeta[1].productRating
            /\ records[i].reviewSummary = firstMeta[1].summary

\* C6 witness: the second page carried other metadata and gave records too
C6_Witness ==
    /\ pc = "page_loop" /\ Len(pageLog) = 2
    /\ html.kind = "markup" /\ html.meta # firstMeta[1]
    /\ OnPage(1) # {} /\ OnPage(2) # {}

\* C8: every fetch that returns absent after at least one attempt has logged
\* exactly one error-level event, whether the attempts raised or answered
\* non-200; a fetch that returns markup has logged none.
C8_TerminalFailureLogged ==
    \A i \in 1..Len(trace) :
        /\ (trace[i].kind = "absent" /\ ReqIdx # {}) =>
              Cardinality({j \in 1..i : trace[j].kind = "error"}) = 1
        /\ trace[i].kind = "resp" =>
              \A j \in 1..Len(trace) : trace[j].kind # "error"

C10_SequentialPacedPagination ==
    /\ \A k \in 1..Len(pageLog) : pageLog[k].page = k
    /\ pc \in {"http", "got_html"} => page = Len(pageLog) + 1
    /\ \A i \in ReqIdx :
          trace[i].a = 1 =>
             IF trace[i].page = 1 THEN i = 1
             ELSE /\ i = 3
                  /\ trace[2].kind = "pace" /\ trace[2].page = trace[i].page - 1
                  /\ trace[2].a >= 8 /\ trace[2].a <= 18
                  /\ trace[1].kind = "parsed" /\ trace[1].page = trace[i].page - 1
                  /\ Cardinality(OnPage(trace[1].page)) = trace[1].a
                  /\ Len(pageLog) >= trace[1].page
    /\ \A i \in 1..Len(trace) :
          trace[i].kind = "parsed" =>
             /\ i < Len(trace)
             /\ trace[i + 1].kind = "pace" /\ trace[i + 1].page = trace[i].page

\* C10 witness: page 2 is requested after page 1 gave records
C10_Witness ==
    /\ pc = "http"
    /\ \E i \in ReqIdx : trace[i].page = 2 /\ trace[i].a = 1
    /\ OnPage(1) # {}

\* the live fetch_reviews call is running
InFetch == pc \in {"page_loop", "http", "got_html"}

\* the latest product was fetched live and its call returned normally
LiveCallReturned ==
    /\ InMain /\ attempted # <<>>
    /\ ~jobs[Last(attempted).job].mock
    /\ Last(attempted).status = "ok"

\* C12: in live mode a page whose fetch returns markup with zero review
\* entries adds no record and does not stop pagination: the pacing delay is
\* taken and the loop moves to the next page; a call that returns normally has
\* fetched every page 1..max_pages once, whatever the entry counts, unless a
\* fetch yielded no markup, and then that fetch was the last.
C12_ZeroReviewPageDoesNotStop ==
    /\ InFetch =>
          \A k \in 1..Len(pageLog) :
              pageLog[k].n = 0 =>
                 /\ pageLog[k].page = k
                 /\ OnPage(k) = {}
                 /\ k = Len(pageLog) =>
                       LET i == IF pc = "page_loop" THEN Len(trace) - 1 ELSE 1
                       IN /\ page = k + 1
                          /\ trace[i] = Ev("parsed", k, 0, 0)
                          /\ trace[i + 1].kind = "pace" /\ trace[i + 1].page = k
                          /\ trace[i + 1].a >= PaceMin /\ trace[i + 1].a <= PaceMax
    /\ LiveCallReturned =>
          LET max_pages == jobs[Last(attempted).job].maxPages
          IN /\ \A k \in 1..Len(pageLog) : pageLog[k].page = k
             /\ Len(pageLog) <= max_pages
             /\ [k \in 1..Len(records) |-> records[k].currentPage] = PagesOfLog(pageLog)
             /\ Last(attempted).returned = Len(records)
             /\ Len(pageLog) < max_pages =>
                   /\ Len(trace) >= 2
                   /\ Last(trace) = Ev("nomarkup", Len(pageLog) + 1, 0, 0)
                   /\ NoMarkupAt(Len(trace) - 1)
                   /\ trace[Len(trace) - 1].page = Len(pageLog) + 1

\* C12 witness: a live call returned after all its pages gave markup, the
\* first with zero entries and the last with some
C12_Witness ==
    /\ LiveCallReturned
    /\ Len(pageLog) = jobs[Last(attempted).job].maxPages
    /\ Len(pageLog) >= 2
    /\ pageLog[1].n = 0 /\ Last(pageLog).n > 0
    /\ OnPage(1) = {} /\ OnPage(Len(pageLog)) # {}

\* ---- claims about the domain resolver (SpecDomain) ---------------------------
RECURSIVE TrimLeft(_)
TrimLeft(str) ==
    IF str # <<>> /\ Head(str) \in {" ", "\t", "\n"} THEN TrimLeft(Tail(str)) ELSE str

RECURSIVE TrimRight(_)
TrimRight(str) ==
    IF str # <<>> /\ str[Len(str)] \in {" ", "\t", "\n"}
    THEN TrimRight(SubSeq(str, 1, Len(str) - 1))
    ELSE str

\* normalize(code): lowercase and trimmed
Normalize(str) ==
    TrimRight(TrimLeft([i \in 1..Len(str) |->
        CASE str[i] = "D" -> "d"
          [] str[i] = "E" -> "e"
          [] OTHER -> str[i]]))

ContainsDot(str) == "." \in {str[i] : i \in 1..Len(str)}

\* the alias table's value for key, or the default code when it has none
AliasOrDefault(cfg, key) ==
    IF key \in DOMAIN cfg.domain_map THEN cfg.domain_map[key] ELSE cfg.default_code

\* resolve(str) for a string
Resolve(str) == get_domain(domain_cfg, <<str>>)

\* C11 as stated: for every code containing "." or in the known-suffix
\* allow-list, resolve(code) = normalize(code); for every other code,
\* resolve(code) is the alias table's value for normalize(code) when present
\* and the default code when absent; resolve("") = resolve(default_code); no
\* code raises.
C11_ResolveByRawCode ==
    domainCall # <<>> /\ Last(domainCall).code # <<>> =>
        LET c == Last(domainCall).code[1]
            r == Last(domainCall).result
        IN /\ ~r.raised
           /\ IF ContainsDot(c) \/ c \in KnownSuffixes
              THEN r.value = Normalize(c)
              ELSE r.value = AliasOrDefault(domain_cfg, Normalize(c))
           /\ Resolve(<<>>) = Resolve(domain_cfg.default_code)

\* C11 amended: the case split is on the normalized code, and the empty
\* code is resolved as the default code is.  For every code whose
\* normalized form contains "." or is in the known-suffix allow-list,
\* resolve(code) = normalize(code); for every other non-empty code,
\* resolve(code) is the alias table's value for normalize(code) when present
\* and the default code when absent; resolve("") = resolve(default_code), and
\* so does resolve(None); no code raises.
C11_ResolveByNormalizedCode ==
    domainCall # <<>> =>
        LET c == Last(domainCall).code
            r == Last(domainCall).result
        IN /\ ~r.raised
           /\ IF c = <<>> \/ c = <<<<>>>>
              THEN r = Resolve(domain_cfg.default_code)
              ELSE IF ContainsDot(Normalize(c[1])) \/ Normalize(c[1]) \in KnownSuffixes
                   THEN r.value = Normalize(c[1])
                   ELSE r.value = AliasOrDefault(domain_cfg, Normalize(c[1]))

\* a call with a code that is in the allow-list only once normalized, under
\* a configuration whose alias table has an entry for the normalized code
C11_Witness ==
    /\ domainCall # <<>>
    /\ Last(domainCall).code = << <<" ", "D", "e">> >>
    /\ <<"d", "e">> \in DOMAIN domain_cfg.domain_map
    /\ Last(domainCall).result = [raised |-> FALSE, value |-> <<"d", "e">>]
====
